---- MODULE Spec2Model ----
(***************************************************************************)
(* Model of the RELP input module, plugins/imrelp/imrelp.c.                *)
(*                                                                         *)
(* The module's static data (pRelpEngine, pInputName, cs, loadModConf,     *)
(* runModConf) and the module config objects are the state; every entry    *)
(* point of the module (beginCnfLoad, setModCnf, newInpInst, addInstance,  *)
(* endCnfLoad, checkCnf, activateCnfPrePrivDrop, runInput, doSIGTTIN,      *)
(* onSyslogRcv, freeCnf, modExit) is one action.  The RELP engine and the  *)
(* rsyslog core are collaborators: each call into them is recorded in      *)
(* `calls`, and a call whose result the code checks may fail.              *)
(*                                                                         *)
(* A C pointer is modelled as a sequence of length at most one: <<>> is    *)
(* the NULL pointer, <<v>> points to v.  So <<"">> is the empty string     *)
(* and <<>> the absent one.                                                *)
(***************************************************************************)
EXTENDS Integers, Sequences, FiniteSets, TLC

VARIABLES
    phase,        \* where the rsyslog core is in driving the module
    pRelpEngine,  \* static relpEngine_t *pRelpEngine
    pInputName,   \* static prop_t *pInputName
    cs,           \* static struct configSettings_s cs (legacy config)
    confs,        \* the modConfData_t objects the core has allocated
    loadModConf,  \* static modConfData_t *loadModConf (index into confs, 0 = NULL)
    runModConf,   \* static modConfData_t *runModConf  (index into confs, 0 = NULL)
    disableDNS,   \* glbl.GetDisableDNS()
    sigUnblocked, \* SIGTTIN is unblocked on the input thread
    sigHandler,   \* disposition of SIGTTIN
    fault,        \* the process died of undefined behaviour
    last,         \* the entry point that ran last
    ret,          \* what it returned (iRet)
    calls,        \* the calls it made into librelp
    logs,         \* what it logged with errmsg.LogError
    rcv           \* onSyslogRcv: its arguments and what became of the message

vars == <<phase, pRelpEngine, pInputName, cs, confs, loadModConf, runModConf,
          disableDNS, sigUnblocked, sigHandler, fault, last, ret, calls, logs, rcv>>

----------------------------------------------------------------------------
(* Bounds of the model *)

\* most listener instances in one module config
MaxInst == 2

\* longest message buffer handed to onSyslogRcv
MaxLen == 2

\* most module configs loaded, one after the other, in one process
MaxGen == 2

----------------------------------------------------------------------------
(* Values *)

NULL == <<>>
Ptr(v) == <<v>>
Deref(p) == p[1]

RS_RET_OK == "RS_RET_OK"
RS_RET_NO_RUN == "RS_RET_NO_RUN"
RS_RET_NOT_FOUND == "RS_RET_NOT_FOUND"
RS_RET_OUT_OF_MEMORY == "RS_RET_OUT_OF_MEMORY"
RS_RET_MISSING_CNFPARAMS == "RS_RET_MISSING_CNFPARAMS"
RS_RET_ERR == "RS_RET_ERR"
RELP_RET_ERR == "RELP_RET_ERR"

\* the rulesets the configuration defines (ruleset.GetRuleset finds these)
Rulesets == {"rsA"}

\* ruleset names a configuration may give
RulesetNames == {"rsA", "nope"}

\* no call of the handler fails
NoFail == "none"

----------------------------------------------------------------------------
(* Objects *)

\* a modConfData_t as the core's calloc leaves it
NewModConf ==
    [root |-> <<>>, pszBindRuleset |-> NULL, pBindRuleset |-> NULL, freed |-> FALSE]

\* the instanceConf_t createInstance builds
DefaultInst ==
    [pszBindPort |-> NULL, bEnableTLS |-> 0, bEnableTLSZip |-> 0, dhBits |-> 0,
     pristring |-> NULL]

\* a parameter list of input(type="imrelp" ...): a parameter that is not given is NULL
InpParams(ports, tlss, dhs, pris, zips) ==
    [port : ports, tls : tlss, dhbits : dhs, pristring : pris, compression : zips]

\* what the handler that ran last leaves behind
NoRcv == [args |-> NULL, msg |-> NULL, fate |-> "none"]

Done(name, r, c, l) ==
    /\ last' = name
    /\ ret' = r
    /\ calls' = c
    /\ logs' = l
    /\ rcv' = NoRcv

Alive == fault = "none"

----------------------------------------------------------------------------
(* Configuration load *)

Init ==
    /\ phase = "init"
    /\ pRelpEngine = NULL
    /\ pInputName = Ptr("imrelp")
    /\ cs = [pszBindRuleset |-> NULL, freed |-> FALSE]
    /\ confs = <<>>
    /\ loadModConf = 0
    /\ runModConf = 0
    /\ disableDNS \in BOOLEAN
    /\ sigUnblocked = FALSE
    /\ sigHandler = "SIG_DFL"
    /\ fault = "none"
    /\ last = "modInit"
    /\ ret = RS_RET_OK
    /\ calls = <<>>
    /\ logs = <<>>
    /\ rcv = NoRcv

BeginCnfLoad ==
    /\ Alive
    /\ phase = "init"
    /\ confs' = Append(confs, NewModConf)
    /\ loadModConf' = Len(confs) + 1
    /\ cs' = [pszBindRuleset |-> NULL, freed |-> FALSE]
    /\ phase' = "loading"
    /\ Done("beginCnfLoad", RS_RET_OK, <<>>, <<>>)
    /\ UNCHANGED <<pRelpEngine, pInputName, runModConf, disableDNS, sigUnblocked,
                   sigHandler, fault>>

\* beginCnfLoad for a further module config, once the one before has been freed
BeginCnfLoadAgain ==
    /\ Alive
    /\ phase = "freed"
    /\ Len(confs) < MaxGen
    /\ confs' = Append(confs, NewModConf)
    /\ loadModConf' = Len(confs) + 1
    /\ cs' = [pszBindRuleset |-> NULL, freed |-> FALSE]
    /\ phase' = "loading"
    /\ Done("beginCnfLoad", RS_RET_OK, <<>>, <<>>)
    /\ UNCHANGED <<pRelpEngine, pInputName, runModConf, disableDNS, sigUnblocked,
                   sigHandler, fault>>

\* module(load="imrelp" ruleset=...); lst is NULL when nvlstGetParams fails
SetModCnf(Lsts) ==
    /\ Alive
    /\ phase = "loading"
    /\ \E lst \in Lsts :
         IF lst = NULL
         THEN /\ Done("setModCnf", RS_RET_MISSING_CNFPARAMS, <<>>,
                      <<"error processing module config parameters [module(...)]">>)
              /\ UNCHANGED confs
         ELSE /\ confs' = [confs EXCEPT ![loadModConf].pszBindRuleset =
                             IF Deref(lst).ruleset # NULL THEN Deref(lst).ruleset ELSE @]
              /\ Done("setModCnf", RS_RET_OK, <<>>, <<>>)
    /\ UNCHANGED <<phase, pRelpEngine, pInputName, cs, loadModConf, runModConf,
                   disableDNS, sigUnblocked, sigHandler, fault>>

\* $InputRELPServerBindRuleset: the core stores the word in cs.pszBindRuleset
LegacyBindRuleset(Names) ==
    /\ Alive
    /\ phase = "loading"
    /\ \E name \in Names : cs' = [pszBindRuleset |-> Ptr(name), freed |-> FALSE]
    /\ Done("inputrelpserverbindruleset", RS_RET_OK, <<>>, <<>>)
    /\ UNCHANGED <<phase, pRelpEngine, pInputName, confs, loadModConf, runModConf,
                   disableDNS, sigUnblocked, sigHandler, fault>>

ResetConfigVariables ==
    /\ Alive
    /\ phase = "loading"
    /\ cs' = [pszBindRuleset |-> NULL, freed |-> FALSE]
    /\ Done("resetConfigVariables", RS_RET_OK, <<>>, <<>>)
    /\ UNCHANGED <<phase, pRelpEngine, pInputName, confs, loadModConf, runModConf,
                   disableDNS, sigUnblocked, sigHandler, fault>>

\* mutant of CreateInstance: the new instance is put at the head of the list
CreateInstance_AtHead(root) == <<DefaultInst>> \o root

\* createInstance: the list with a default instance appended at the tail
CreateInstance(root) == Append(root, DefaultInst)

\* the fields newInpInst sets from the parameters that are given
ApplyInpParams(inst, pv) ==
    [pszBindPort   |-> IF pv.port # NULL THEN pv.port ELSE inst.pszBindPort,
     bEnableTLS    |-> IF pv.tls # NULL THEN Deref(pv.tls) ELSE inst.bEnableTLS,
     dhBits        |-> IF pv.dhbits # NULL THEN Deref(pv.dhbits) ELSE inst.dhBits,
     pristring     |-> IF pv.pristring # NULL THEN pv.pristring ELSE inst.pristring,
     bEnableTLSZip |-> IF pv.compression # NULL THEN Deref(pv.compression)
                       ELSE inst.bEnableTLSZip]

\* input(type="imrelp" port=... tls=...); "port" is a required parameter, so
\* nvlstGetParams fails (lst is NULL) when it is not given
NewInpInst(Lsts) ==
    /\ Alive
    /\ phase = "loading"
    /\ Len(confs[loadModConf].root) < MaxInst
    /\ \E lst \in Lsts, mallocOk \in BOOLEAN :
         IF lst = NULL
         THEN /\ mallocOk
              /\ Done("newInpInst", RS_RET_MISSING_CNFPARAMS, <<>>,
                      <<"imrelp: required parameter are missing">>)
              /\ UNCHANGED confs
         ELSE IF ~mallocOk
         THEN /\ Done("newInpInst", RS_RET_OUT_OF_MEMORY, <<>>, <<>>)
              /\ UNCHANGED confs
         ELSE LET root == CreateInstance(confs[loadModConf].root)
                  n == Len(root)
              IN /\ confs' = [confs EXCEPT ![loadModConf].root =
                                [root EXCEPT ![n] = ApplyInpParams(root[n], Deref(lst))]]
                 /\ Done("newInpInst", RS_RET_OK, <<>>, <<>>)
    /\ UNCHANGED <<phase, pRelpEngine, pInputName, cs, loadModConf, runModConf,
                   disableDNS, sigUnblocked, sigHandler, fault>>

\* $InputRELPServerRun <port>
AddInstance(Vals) ==
    /\ Alive
    /\ phase = "loading"
    /\ Len(confs[loadModConf].root) < MaxInst
    /\ \E pNewVal \in Vals, mallocOk \in BOOLEAN :
         IF ~mallocOk
         THEN /\ Done("addInstance", RS_RET_OUT_OF_MEMORY, <<>>, <<>>)
              /\ UNCHANGED confs
         ELSE LET root == CreateInstance(confs[loadModConf].root)
                  n == Len(root)
              IN /\ confs' = [confs EXCEPT ![loadModConf].root =
                                [root EXCEPT ![n].pszBindPort = pNewVal]]
                 /\ Done("addInstance", RS_RET_OK, <<>>,
                         IF pNewVal = NULL \/ Deref(pNewVal) = ""
                         THEN <<"imrelp: port number must be specified, listener ignored">>
                         ELSE <<>>)
    /\ UNCHANGED <<phase, pRelpEngine, pInputName, cs, loadModConf, runModConf,
                   disableDNS, sigUnblocked, sigHandler, fault>>

\* mutant of LegacyRulesetGiven: the test for the empty string is left out
LegacyRulesetGiven_NotNull == cs.pszBindRuleset # NULL

\* cs.pszBindRuleset names a ruleset
LegacyRulesetGiven == cs.pszBindRuleset # NULL /\ Deref(cs.pszBindRuleset) # ""

EndCnfLoad ==
    /\ Alive
    /\ phase = "loading"
    /\ \E dupOk \in BOOLEAN :
         LET c == confs[loadModConf] IN
         IF c.pszBindRuleset = NULL
         THEN IF ~LegacyRulesetGiven
              THEN /\ dupOk
                   /\ confs' = [confs EXCEPT ![loadModConf].pszBindRuleset = NULL]
                   /\ Done("endCnfLoad", RS_RET_OK, <<>>, <<>>)
              ELSE IF dupOk
              THEN /\ confs' = [confs EXCEPT ![loadModConf].pszBindRuleset =
                                  cs.pszBindRuleset]
                   /\ Done("endCnfLoad", RS_RET_OK, <<>>, <<>>)
              ELSE /\ confs' = [confs EXCEPT ![loadModConf].pszBindRuleset = NULL]
                   /\ Done("endCnfLoad", RS_RET_OUT_OF_MEMORY, <<>>, <<>>)
         ELSE /\ dupOk
              /\ UNCHANGED confs
              /\ Done("endCnfLoad", RS_RET_OK, <<>>,
                      IF LegacyRulesetGiven
                      THEN <<"imrelp: warning: ruleset set via legacy directive ignored">>
                      ELSE <<>>)
    /\ cs' = [cs EXCEPT !.freed = (cs.pszBindRuleset # NULL)]
    /\ loadModConf' = 0
    /\ phase' = "loaded"
    /\ UNCHANGED <<pRelpEngine, pInputName, runModConf, disableDNS, sigUnblocked,
                   sigHandler, fault>>

\* ruleset.GetRuleset: the ruleset of that name, or RS_RET_NOT_FOUND
GetRuleset(name) ==
    IF Deref(name) \in Rulesets
    THEN [localRet |-> RS_RET_OK, pRuleset |-> name]
    ELSE [localRet |-> RS_RET_NOT_FOUND, pRuleset |-> NULL]

\* the module config the core hands to checkCnf, activateCnfPrePrivDrop and freeCnf
pModConf == Len(confs)

CheckCnf ==
    /\ Alive
    /\ phase = "loaded"
    /\ LET c == confs[pModConf] IN
       IF c.pszBindRuleset = NULL
       THEN /\ confs' = [confs EXCEPT ![pModConf].pBindRuleset = NULL]
            /\ Done("checkCnf", RS_RET_OK, <<>>, <<>>)
       ELSE LET r == GetRuleset(c.pszBindRuleset) IN
            IF r.localRet # RS_RET_OK
            THEN /\ UNCHANGED confs
                 /\ Done("checkCnf", r.localRet, <<>>,
                         IF r.localRet = RS_RET_NOT_FOUND
                         THEN <<"imrelp: ruleset not found - using default ruleset instead">>
                         ELSE <<>>)
            ELSE /\ confs' = [confs EXCEPT ![pModConf].pBindRuleset = r.pRuleset]
                 /\ Done("checkCnf", RS_RET_OK, <<>>, <<>>)
    /\ phase' = "checked"
    /\ UNCHANGED <<pRelpEngine, pInputName, cs, loadModConf, runModConf, disableDNS,
                   sigUnblocked, sigHandler, fault>>

----------------------------------------------------------------------------
(* The RELP engine and addListner *)

\* the librelp calls whose result addListner checks with CHKiRet
CheckedCalls ==
    {"relpEngineConstruct", "relpEngineSetDbgprint", "relpEngineSetFamily",
     "relpEngineSetEnableCmd", "relpEngineSetSyslogRcv", "relpEngineSetDnsLookupMode",
     "relpEngineListnerConstruct", "relpSrvSetLstnPort",
     "relpEngineListnerConstructFinalize"}

\* which calls fail during one activation of n instances: call F.fn, one of
\* Failing, for the instances in F.idx
FailPlans(n, Failing) == {[fn |-> NoFail, idx |-> {}]} \cup
                         [fn : Failing, idx : SUBSET (1..n) \ {{}}]

Fails(F, fn, i) == F.fn = fn /\ i \in F.idx

\* one call into librelp, made for instance i (0: for none), and whether it succeeded
Call(fn, i, arg, ok) == [fn |-> fn, inst |-> i, arg |-> arg, ok |-> ok]

\* the engine relpEngineConstruct returns
NewEngine ==
    [dbgprint |-> FALSE, family |-> FALSE, cmdSyslog |-> FALSE, syslogRcv |-> FALSE,
     dnsLookup |-> FALSE, srvs |-> <<>>, bStop |-> FALSE]

\* the server relpEngineListnerConstruct returns
NewSrv ==
    [lstnPort |-> NULL, tls |-> FALSE, tlsZip |-> FALSE, dhBits |-> 0,
     priStringSet |-> 0, priString |-> NULL]

\* what a successful call does to the engine and to the server under construction
Effect(st, fn, arg) ==
    CASE fn = "relpEngineConstruct" -> [st EXCEPT !.eng = Ptr(NewEngine)]
      [] fn = "relpEngineSetDbgprint" -> [st EXCEPT !.eng[1].dbgprint = TRUE]
      [] fn = "relpEngineSetFamily" -> [st EXCEPT !.eng[1].family = TRUE]
      [] fn = "relpEngineSetEnableCmd" -> [st EXCEPT !.eng[1].cmdSyslog = TRUE]
      [] fn = "relpEngineSetSyslogRcv" -> [st EXCEPT !.eng[1].syslogRcv = TRUE]
      [] fn = "relpEngineSetDnsLookupMode" -> [st EXCEPT !.eng[1].dnsLookup = TRUE]
      [] fn = "relpEngineListnerConstruct" -> [st EXCEPT !.srv = NewSrv]
      [] fn = "relpSrvSetLstnPort" -> [st EXCEPT !.srv.lstnPort = arg[1]]
      [] fn = "relpSrvEnableTLS" -> [st EXCEPT !.srv.tls = TRUE]
      [] fn = "relpSrvEnableTLSZip" -> [st EXCEPT !.srv.tlsZip = TRUE]
      [] fn = "relpSrvSetDHBits" -> [st EXCEPT !.srv.dhBits = arg[1]]
      [] fn = "relpSrvSetGnuTLSPriString" ->
             [st EXCEPT !.srv.priString = arg[1], !.srv.priStringSet = @ + 1]
      [] fn = "relpEngineListnerConstructFinalize" ->
             [st EXCEPT !.eng[1].srvs = Append(@, st.srv)]

\* CHKiRet(fn(...)): skipped once an earlier call has failed; a failing call
\* sets iRet and changes nothing else
Chk(st, F, i, fn, arg) ==
    IF st.iRet # RS_RET_OK THEN st
    ELSE IF Fails(F, fn, i)
    THEN [st EXCEPT !.calls = Append(@, Call(fn, i, arg, FALSE)), !.iRet = RELP_RET_ERR]
    ELSE Effect([st EXCEPT !.calls = Append(@, Call(fn, i, arg, TRUE))], fn, arg)

\* fn(...) with its result ignored
NoChk(st, i, fn, arg) ==
    IF st.iRet # RS_RET_OK THEN st
    ELSE Effect([st EXCEPT !.calls = Append(@, Call(fn, i, arg, TRUE))], fn, arg)

\* the statements two conditions guard; nothing when one of them is false
When(cond, st, stThen) == IF st.iRet = RS_RET_OK /\ cond THEN stThen ELSE st

\* addListner, lines 231-240: the engine is built when there is none
EnsureEngine(st, F, i) ==
    LET s1 == Chk(st, F, i, "relpEngineConstruct", <<>>)
        s2 == Chk(s1, F, i, "relpEngineSetDbgprint", <<>>)
        s3 == Chk(s2, F, i, "relpEngineSetFamily", <<>>)
        s4 == Chk(s3, F, i, "relpEngineSetEnableCmd", <<"syslog">>)
        s5 == Chk(s4, F, i, "relpEngineSetSyslogRcv", <<"onSyslogRcv">>)
    IN  When(~disableDNS, s5, Chk(s5, F, i, "relpEngineSetDnsLookupMode", <<1>>))

\* mutant of TlsSettings: the priority string is set only when one is configured
TlsSettings_SkipNullPri(st, inst, i) ==
    LET t1 == NoChk(st, i, "relpSrvEnableTLS", <<>>)
        t2 == When(inst.bEnableTLSZip # 0, t1, NoChk(t1, i, "relpSrvEnableTLSZip", <<>>))
        t3 == When(inst.dhBits # 0, t2,
                   NoChk(t2, i, "relpSrvSetDHBits", <<inst.dhBits>>))
    IN  When(inst.pristring # NULL, t3,
             NoChk(t3, i, "relpSrvSetGnuTLSPriString", <<inst.pristring>>))

\* addListner, lines 244-253: the TLS settings of the server
TlsSettings(st, inst, i) ==
    LET t1 == NoChk(st, i, "relpSrvEnableTLS", <<>>)
        t2 == When(inst.bEnableTLSZip # 0, t1, NoChk(t1, i, "relpSrvEnableTLSZip", <<>>))
        t3 == When(inst.dhBits # 0, t2,
                   NoChk(t2, i, "relpSrvSetDHBits", <<inst.dhBits>>))
    IN  NoChk(t3, i, "relpSrvSetGnuTLSPriString", <<inst.pristring>>)

\* mutant of TlsEnabled: the TLS settings are applied to every server
TlsEnabled_Always(inst) == TRUE

\* addListner, line 244: if(inst->bEnableTLS)
TlsEnabled(inst) == inst.bEnableTLS # 0

\* mutant of AddListner: the engine is built for every instance
AddListner_AlwaysConstructs(eng, inst, F, i) ==
    LET s0 == [eng |-> eng, srv |-> NewSrv, calls |-> <<>>, iRet |-> RS_RET_OK]
        s1 == EnsureEngine(s0, F, i)
        s2 == Chk(s1, F, i, "relpEngineListnerConstruct", <<>>)
        s3 == Chk(s2, F, i, "relpSrvSetLstnPort", <<inst.pszBindPort>>)
        s4 == When(TlsEnabled(inst), s3, TlsSettings(s3, inst, i))
    IN  Chk(s4, F, i, "relpEngineListnerConstructFinalize", <<>>)

\* addListner(modConf, inst) for the i-th instance, from engine eng: the engine
\* it leaves, the calls it made and its iRet
AddListner(eng, inst, F, i) ==
    LET s0 == [eng |-> eng, srv |-> NewSrv, calls |-> <<>>, iRet |-> RS_RET_OK]
        s1 == When(eng = NULL, s0, EnsureEngine(s0, F, i))
        s2 == Chk(s1, F, i, "relpEngineListnerConstruct", <<>>)
        s3 == Chk(s2, F, i, "relpSrvSetLstnPort", <<inst.pszBindPort>>)
        s4 == When(TlsEnabled(inst), s3, TlsSettings(s3, inst, i))
    IN  Chk(s4, F, i, "relpEngineListnerConstructFinalize", <<>>)

\* mutant of AddListners: the loop ends after the first instance
AddListners_FirstOnly(eng, root, F, n) ==
    IF n = 0 THEN [eng |-> eng, calls |-> <<>>, rets |-> <<>>]
    ELSE LET this == AddListner(eng, root[1], F, 1)
         IN  [eng |-> this.eng, calls |-> this.calls, rets |-> <<this.iRet>>]

\* the loop of activateCnfPrePrivDrop over the first n instances of root
RECURSIVE AddListners(_, _, _, _)
AddListners(eng, root, F, n) ==
    IF n = 0 THEN [eng |-> eng, calls |-> <<>>, rets |-> <<>>]
    ELSE LET before == AddListners(eng, root, F, n - 1)
             this == AddListner(before.eng, root[n], F, n)
         IN  [eng |-> this.eng, calls |-> before.calls \o this.calls,
              rets |-> Append(before.rets, this.iRet)]

\* mutant of ActivateRet: the check for a missing engine is left out
ActivateRet_AlwaysOk(eng) == RS_RET_OK

\* activateCnfPrePrivDrop, lines 397-398: what it returns, given the engine
ActivateRet(eng) == IF eng = NULL THEN RS_RET_NO_RUN ELSE RS_RET_OK

\* mutant of ActivateCnfPrePrivDrop: runModConf is set by the first activation only
ActivateCnfPrePrivDrop_KeepsRunModConf(Failing) ==
    /\ Alive
    /\ phase = "checked"
    /\ runModConf' = IF runModConf = 0 THEN pModConf ELSE runModConf
    /\ \E F \in FailPlans(Len(confs[pModConf].root), Failing) :
         LET r == AddListners(pRelpEngine, confs[pModConf].root, F,
                              Len(confs[pModConf].root))
             iRet == ActivateRet(r.eng)
         IN /\ pRelpEngine' = r.eng
            /\ phase' = IF iRet = RS_RET_OK THEN "activated" ELSE "norun"
            /\ Done("activateCnfPrePrivDrop", iRet, r.calls, <<>>)
    /\ UNCHANGED <<pInputName, cs, confs, loadModConf, disableDNS, sigUnblocked,
                   sigHandler, fault>>

ActivateCnfPrePrivDrop(Failing) ==
    /\ Alive
    /\ phase = "checked"
    /\ runModConf' = pModConf
    /\ \E F \in FailPlans(Len(confs[pModConf].root), Failing) :
         LET r == AddListners(pRelpEngine, confs[pModConf].root, F,
                              Len(confs[pModConf].root))
             iRet == ActivateRet(r.eng)
         IN /\ pRelpEngine' = r.eng
            /\ phase' = IF iRet = RS_RET_OK THEN "activated" ELSE "norun"
            /\ Done("activateCnfPrePrivDrop", iRet, r.calls, <<>>)
    /\ UNCHANGED <<pInputName, cs, confs, loadModConf, disableDNS, sigUnblocked,
                   sigHandler, fault>>

----------------------------------------------------------------------------
(* Running: runInput, the stop request and the receive callback *)

\* runInput, lines 441-445: every signal is blocked on this thread but SIGTTIN
RunInputSigmask ==
    /\ Alive
    /\ phase = "activated"
    /\ sigUnblocked' = TRUE
    /\ phase' = "unblocked"
    /\ Done("runInput", RS_RET_OK, <<>>, <<>>)
    /\ UNCHANGED <<pRelpEngine, pInputName, cs, confs, loadModConf, runModConf,
                   disableDNS, sigHandler, fault>>

\* runInput, lines 446-449: doSIGTTIN becomes the handler of SIGTTIN
RunInputSigaction ==
    /\ Alive
    /\ phase = "unblocked"
    /\ sigHandler' = "doSIGTTIN"
    /\ phase' = "installed"
    /\ Done("runInput", RS_RET_OK, <<>>, <<>>)
    /\ UNCHANGED <<pRelpEngine, pInputName, cs, confs, loadModConf, runModConf,
                   disableDNS, sigUnblocked, fault>>

\* runInput, line 451: the thread enters relpEngineRun and blocks in it
RelpEngineRun ==
    /\ Alive
    /\ phase = "installed"
    /\ phase' = "running"
    /\ Done("runInput", RS_RET_OK, <<Call("relpEngineRun", 0, <<>>, TRUE)>>, <<>>)
    /\ UNCHANGED <<pRelpEngine, pInputName, cs, confs, loadModConf, runModConf,
                   disableDNS, sigUnblocked, sigHandler, fault>>

\* relpEngineRun sees the stop flag, unwinds, and runInput returns its result
RelpEngineRunStop ==
    /\ Alive
    /\ phase = "running"
    /\ Deref(pRelpEngine).bStop
    /\ phase' = "stopped"
    /\ Done("runInput", RS_RET_OK, <<>>, <<>>)
    /\ UNCHANGED <<pRelpEngine, pInputName, cs, confs, loadModConf, runModConf,
                   disableDNS, sigUnblocked, sigHandler, fault>>

\* relpEngineRun ends on a fatal engine error, and runInput returns it
RelpEngineRunFail ==
    /\ Alive
    /\ phase = "running"
    /\ phase' = "stopped"
    /\ Done("runInput", RELP_RET_ERR, <<>>, <<>>)
    /\ UNCHANGED <<pRelpEngine, pInputName, cs, confs, loadModConf, runModConf,
                   disableDNS, sigUnblocked, sigHandler, fault>>

\* mutant of RelpEngineSetStop: the stop request does not reach the engine
RelpEngineSetStop_Lost(eng) == eng

\* doSIGTTIN, line 427: relpEngineSetStop on an engine sets its stop flag
RelpEngineSetStop(eng) == [eng EXCEPT ![1].bStop = TRUE]

\* what relpEngineSetStop(NULL) can do: librelp dereferences the handle
NullEngineOutcomes == {"SIGSEGV", "SIGABRT"}

\* SIGTTIN is delivered and doSIGTTIN runs, in whatever phase the module is
DoSIGTTIN ==
    /\ Alive
    /\ sigUnblocked
    /\ sigHandler = "doSIGTTIN"
    /\ IF pRelpEngine = NULL
       THEN /\ fault' \in NullEngineOutcomes
            /\ UNCHANGED pRelpEngine
       ELSE /\ pRelpEngine' = RelpEngineSetStop(pRelpEngine)
            /\ UNCHANGED fault
    /\ Done("doSIGTTIN", "void",
            <<Call("DBGPRINTF", 0, <<>>, TRUE),
              Call("relpEngineSetStop", 0, <<pRelpEngine>>, pRelpEngine # NULL)>>, <<>>)
    /\ UNCHANGED <<phase, pInputName, cs, confs, loadModConf, runModConf, disableDNS,
                   sigUnblocked, sigHandler>>

\* the steps of onSyslogRcv that can fail
RcvSteps ==
    {"msgConstruct", "MsgSetRcvFromStr", "prop.Destruct.1", "MsgSetRcvFromIPStr",
     "prop.Destruct.2", "submitMsg2"}

\* the message msgConstruct returns
NewMsg ==
    [pInputName |-> NULL, rawMsg |-> <<>>, flowCtlType |-> "eFLOWCTL_NO_DELAY",
     pRuleset |-> NULL, msgFlags |-> {}, rcvFrom |-> NULL, rcvFromIP |-> NULL]

\* ustrlen: the bytes before the terminating NUL (0)
RECURSIVE ustrlen(_)
ustrlen(str) == IF str = <<>> \/ Head(str) = 0 THEN 0 ELSE 1 + ustrlen(Tail(str))

\* mutant of Bytes: the length is ignored and the whole buffer taken
Bytes_Whole(buf, len) == buf

\* the first len bytes of a buffer
Bytes(buf, len) == SubSeq(buf, 1, len)

\* CHKiRet(step): skipped once an earlier step has failed
RcvChk(st, f, step, stThen) ==
    IF st.iRet # RS_RET_OK THEN st
    ELSE IF f = step THEN [st EXCEPT !.iRet = RS_RET_ERR]
    ELSE stThen

\* onSyslogRcv(pHostname, pIP, msg, lenMsg) when step f fails (NoFail: none does):
\* its iRet, the message it built and what became of that message
OnSyslogRcvBody(pHostname, pIP, msg, lenMsg, f) ==
    LET s0 == [iRet |-> RS_RET_OK, pMsg |-> NULL, fate |-> "none"]
        s1 == RcvChk(s0, f, "msgConstruct",
                     [s0 EXCEPT !.pMsg = Ptr(NewMsg), !.fate = "held"])
        s2 == IF s1.iRet # RS_RET_OK THEN s1
              ELSE [s1 EXCEPT !.pMsg[1].pInputName = pInputName,
                              !.pMsg[1].rawMsg = Bytes(msg, lenMsg),
                              !.pMsg[1].flowCtlType = "eFLOWCTL_LIGHT_DELAY",
                              !.pMsg[1].pRuleset = confs[runModConf].pBindRuleset,
                              !.pMsg[1].msgFlags = {"PARSE_HOSTNAME", "NEEDS_PARSING"}]
        \* line 150: the result of MsgSetRcvFromStr is not looked at
        s3 == IF s2.iRet # RS_RET_OK \/ f = "MsgSetRcvFromStr" THEN s2
              ELSE [s2 EXCEPT !.pMsg[1].rcvFrom =
                                  Ptr(Bytes(pHostname, ustrlen(pHostname)))]
        s4 == RcvChk(s3, f, "prop.Destruct.1", s3)
        s5 == RcvChk(s4, f, "MsgSetRcvFromIPStr",
                     [s4 EXCEPT !.pMsg[1].rcvFromIP = Ptr(Bytes(pIP, ustrlen(pIP)))])
        s6 == RcvChk(s5, f, "prop.Destruct.2", s5)
    IN  RcvChk(s6, f, "submitMsg2", [s6 EXCEPT !.fate = "submitted"])

\* the engine, inside relpEngineRun, hands one received record to the callback
\* it was given with relpEngineSetSyslogRcv
OnSyslogRcv(Hosts, IPs, Bufs, Steps) ==
    /\ Alive
    /\ phase = "running"
    /\ Deref(pRelpEngine).syslogRcv
    /\ Deref(pRelpEngine).srvs # <<>>
    /\ \E pHostname \in Hosts, pIP \in IPs, msg \in Bufs, f \in Steps \cup {NoFail} :
         \E lenMsg \in 0..Len(msg) :
           LET r == OnSyslogRcvBody(pHostname, pIP, msg, lenMsg, f) IN
           /\ last' = "onSyslogRcv"
           /\ ret' = r.iRet
           /\ calls' = <<>>
           /\ logs' = <<>>
           /\ rcv' = [args |-> Ptr([pHostname |-> pHostname, pIP |-> pIP, msg |-> msg,
                                    lenMsg |-> lenMsg, failed |-> f]),
                      msg |-> r.pMsg, fate |-> r.fate]
    /\ UNCHANGED <<phase, pRelpEngine, pInputName, cs, confs, loadModConf, runModConf,
                   disableDNS, sigUnblocked, sigHandler, fault>>

----------------------------------------------------------------------------
(* Teardown *)

FreeCnf ==
    /\ Alive
    /\ phase \in {"stopped", "norun"}
    /\ confs' = [confs EXCEPT ![pModConf].freed = TRUE]
    /\ phase' = "freed"
    /\ Done("freeCnf", RS_RET_OK, <<>>, <<>>)
    /\ UNCHANGED <<pRelpEngine, pInputName, cs, loadModConf, runModConf, disableDNS,
                   sigUnblocked, sigHandler, fault>>

ModExit ==
    /\ Alive
    /\ phase = "freed"
    /\ \E destructOk \in BOOLEAN :
         /\ pRelpEngine = NULL => destructOk
         /\ Done("modExit", IF destructOk THEN RS_RET_OK ELSE RELP_RET_ERR,
                 IF pRelpEngine # NULL THEN <<Call("relpEngineDestruct", 0, <<>>, destructOk)>>
                 ELSE <<>>, <<>>)
    /\ pRelpEngine' = NULL
    /\ pInputName' = NULL
    /\ phase' = "exited"
    /\ UNCHANGED <<cs, confs, loadModConf, runModConf, disableDNS, sigUnblocked,
                   sigHandler, fault>>

----------------------------------------------------------------------------
(* Inputs and specifications *)

\* port strings of a listener: empty, and two ports
Ports == {<<"">>, <<"514">>, <<"601">>}

\* input(...) statements that give only the port
PortOnly == {Ptr(pv) : pv \in InpParams(Ports, {NULL}, {NULL}, {NULL}, {NULL})}

\* module(...) parameter lists: no ruleset, a known one, an unknown one
ModParams == {Ptr([ruleset |-> NULL])} \cup {Ptr([ruleset |-> Ptr(n)]) : n \in RulesetNames}

\* input(...) statements for one port with every combination of TLS settings
TlsParams ==
    {Ptr(pv) : pv \in InpParams({<<"514">>}, {<<0>>, <<1>>}, {NULL, <<2048>>},
                                {NULL, <<"NORMAL">>}, {<<0>>, <<1>>})}

\* one received record: host name and address are C strings ("h1", the empty
\* name; "10", "::1"), the payload a buffer of which lenMsg bytes count
Hosts == {<<104, 49, 0>>, <<0>>}
IPs == {<<49, 48, 0>>, <<58, 58, 49, 0>>}
Bufs == {[k \in 1..n |-> IF k % 2 = 1 THEN 120 ELSE 0] : n \in 0..MaxLen}

Next ==
    \/ BeginCnfLoad
    \/ SetModCnf(ModParams \cup {NULL})
    \/ LegacyBindRuleset({"", "rsA"})
    \/ ResetConfigVariables
    \/ NewInpInst(PortOnly \cup {NULL})
    \/ AddInstance(Ports \cup {NULL})
    \/ EndCnfLoad
    \/ CheckCnf
    \/ ActivateCnfPrePrivDrop(CheckedCalls)
    \/ RunInputSigmask
    \/ RunInputSigaction
    \/ RelpEngineRun
    \/ RelpEngineRunStop
    \/ RelpEngineRunFail
    \/ DoSIGTTIN
    \/ OnSyslogRcv({<<104, 49, 0>>}, {<<49, 48, 0>>}, {<<120>>}, {})
    \/ FreeCnf
    \/ ModExit

Spec == Init /\ [][Next]_vars

\* One listener on port 514, every module-level ruleset, and every record and
\* failing step of the receive callback; no librelp call fails in activation.
NextRcv ==
    \/ BeginCnfLoad
    \/ SetModCnf(ModParams)
    \/ NewInpInst({Ptr(pv) : pv \in InpParams({<<"514">>}, {NULL}, {NULL}, {NULL}, {NULL})})
    \/ EndCnfLoad
    \/ CheckCnf
    \/ ActivateCnfPrePrivDrop({})
    \/ RunInputSigmask
    \/ RunInputSigaction
    \/ RelpEngineRun
    \/ OnSyslogRcv(Hosts, IPs, Bufs, RcvSteps)

SpecRcv == Init /\ [][NextRcv]_vars

\* Listeners with every combination of TLS settings, up to activation.
NextTls ==
    \/ BeginCnfLoad
    \/ NewInpInst(TlsParams)
    \/ EndCnfLoad
    \/ CheckCnf
    \/ ActivateCnfPrePrivDrop(CheckedCalls)

SpecTls == Init /\ [][NextTls]_vars

\* the input(...) statement that gives port 514 and nothing else
Port514 == {Ptr(pv) : pv \in InpParams({<<"514">>}, {NULL}, {NULL}, {NULL}, {NULL})}

\* Module configs loaded, activated, run and freed one after the other in one
\* process, each with or without the ruleset "rsA" and with up to MaxInst listeners
\* on port 514; relpEngineConstruct may fail.
NextReload ==
    \/ BeginCnfLoad
    \/ BeginCnfLoadAgain
    \/ SetModCnf({Ptr([ruleset |-> Ptr("rsA")])})
    \/ NewInpInst(Port514)
    \/ EndCnfLoad
    \/ CheckCnf
    \/ ActivateCnfPrePrivDrop({"relpEngineConstruct"})
    \/ RunInputSigmask
    \/ RunInputSigaction
    \/ RelpEngineRun
    \/ RelpEngineRunStop
    \/ RelpEngineRunFail
    \/ DoSIGTTIN
    \/ OnSyslogRcv({<<104, 49, 0>>}, {<<49, 48, 0>>}, {<<120>>}, {})
    \/ FreeCnf
    \/ ModExit

SpecReload == Init /\ [][NextReload]_vars

\* The input thread keeps running: once the stop flag is set, relpEngineRun
\* (whose select() the signal interrupts) gets to see it.
FairSpec == Spec /\ WF_vars(RelpEngineRunStop)

----------------------------------------------------------------------------
(* What the claims speak of *)

\* the module config activateCnfPrePrivDrop was given, and its instances
Activated == last = "activateCnfPrePrivDrop"
ActiveRoot == confs[runModConf].root

\* the port of an instance is absent or the empty string
EmptyPort(inst) == inst.pszBindPort = NULL \/ Deref(inst.pszBindPort) = ""

\* the calls of the last handler to one librelp function, in order
CallsOf(fn) == SelectSeq(calls, LAMBDA c : c.fn = fn)

\* the instances those calls were made for, in order
InstsOf(fn) == [k \in 1..Len(CallsOf(fn)) |-> CallsOf(fn)[k].inst]

\* the servers the engine serves
Srvs == IF pRelpEngine = NULL THEN <<>> ELSE Deref(pRelpEngine).srvs

\* the calls that build a server for an instance
ListnerCalls ==
    {"relpEngineListnerConstruct", "relpSrvSetLstnPort",
     "relpEngineListnerConstructFinalize"}

\* C1: after activateCnfPrePrivDrop, no server has been constructed, given a port
\* or finalized for an instance whose port is empty or absent, and no such
\* instance is in the list activation went through.
C1_EmptyPortNeverActivated ==
    Activated =>
        \A i \in 1..Len(ActiveRoot) :
            /\ ~EmptyPort(ActiveRoot[i])
            /\ \A k \in 1..Len(calls) :
                   calls[k].inst = i /\ EmptyPort(ActiveRoot[i])
                       => calls[k].fn \notin ListnerCalls

\* every instance has a port, and no two have the same
DistinctPorts(root) ==
    /\ \A i \in 1..Len(root) : ~EmptyPort(root[i])
    /\ \A i, j \in 1..Len(root) : i # j => root[i].pszBindPort # root[j].pszBindPort

\* C2: an activation of N instances with distinct non-empty ports in which every
\* call succeeds constructs and finalizes exactly N servers, one per instance in
\* list order, each with the port of its instance.
C2_OneListenerPerConfigInOrder ==
    (Activated /\ DistinctPorts(ActiveRoot) /\ \A k \in 1..Len(calls) : calls[k].ok)
        => LET N == Len(ActiveRoot) IN
           /\ InstsOf("relpEngineListnerConstruct") = [i \in 1..N |-> i]
           /\ InstsOf("relpEngineListnerConstructFinalize") = [i \in 1..N |-> i]
           /\ Len(CallsOf("relpSrvSetLstnPort")) = N
           /\ \A i \in 1..N :
                  CallsOf("relpSrvSetLstnPort")[i].arg = <<ActiveRoot[i].pszBindPort>>
           /\ Len(Srvs) = N
           /\ \A i \in 1..N : Srvs[i].lstnPort = ActiveRoot[i].pszBindPort

C2_Witness ==
    /\ Activated
    /\ Len(ActiveRoot) = 2
    /\ DistinctPorts(ActiveRoot)
    /\ \A k \in 1..Len(calls) : calls[k].ok
    /\ Len(Srvs) = 2

\* every relpEngineConstruct of the last handler failed
ConstructNeverSucceeded ==
    \A k \in 1..Len(calls) : calls[k].fn = "relpEngineConstruct" => ~calls[k].ok

\* C3: an activation in which relpEngineConstruct never succeeds constructs no
\* server and returns RS_RET_NO_RUN, whatever the number of instances, and
\* runInput is never entered without an engine.
C3_NoEngineIsFatal ==
    /\ (Activated /\ ConstructNeverSucceeded)
           => /\ CallsOf("relpEngineListnerConstruct") = <<>>
              /\ Srvs = <<>>
              /\ ret = RS_RET_NO_RUN
    /\ phase \in {"activated", "unblocked", "installed", "running"}
           => pRelpEngine # NULL

C3_Witness ==
    /\ Activated
    /\ Len(ActiveRoot) = 2
    /\ Len(CallsOf("relpEngineConstruct")) = 2
    /\ ConstructNeverSucceeded
    /\ ret = RS_RET_NO_RUN

C3_WitnessEmpty ==
    /\ Activated
    /\ Len(ActiveRoot) = 0
    /\ ret = RS_RET_NO_RUN

\* C4: a stop request delivered while the thread is inside relpEngineRun makes
\* runInput return, with no further record needed; and whenever the thread is
\* inside relpEngineRun, doSIGTTIN is installed and SIGTTIN unblocked.
C4_StopRequestEndsRun ==
    /\ (phase = "running" /\ last = "doSIGTTIN") ~> (phase = "stopped")
    /\ [](phase = "running" => sigHandler = "doSIGTTIN" /\ sigUnblocked)

C4_Witness ==
    /\ phase = "stopped"
    /\ ret = RS_RET_OK
    /\ last = "runInput"
    /\ Deref(pRelpEngine).bStop

\* C5: a stop request that cannot take effect is a safe no-op: doSIGTTIN never
\* hands an absent engine to relpEngineSetStop, and the process survives it.
C5_StopWithoutEngineIsNoOp ==
    last = "doSIGTTIN" =>
        /\ fault = "none"
        /\ \A k \in 1..Len(calls) :
               calls[k].fn = "relpEngineSetStop" => calls[k].arg # <<NULL>>

\* the arguments of the last onSyslogRcv, and the message it built
RcvArgs == Deref(rcv.args)
RcvMsg == Deref(rcv.msg)
Received == last = "onSyslogRcv"

\* C6: onSyslogRcv returns OK only if every step succeeded and the message was
\* submitted; a failure of any step makes it return a non-OK result.
C6_FailureIsNonOk ==
    Received => (ret = RS_RET_OK <=> (RcvArgs.failed = NoFail /\ rcv.fate = "submitted"))

\* s is the C string at buf: the bytes before the first NUL
IsCStrOf(s, buf) ==
    /\ Len(s) < Len(buf)
    /\ buf[Len(s) + 1] = 0
    /\ \A k \in 1..Len(s) : s[k] = buf[k] /\ s[k] # 0

\* the message of a callback in which no step failed
C7_Message ==
    /\ ret = RS_RET_OK
    /\ rcv.fate = "submitted"
    /\ rcv.msg # NULL
    /\ RcvMsg.rcvFrom # NULL /\ IsCStrOf(Deref(RcvMsg.rcvFrom), RcvArgs.pHostname)
    /\ RcvMsg.rcvFromIP # NULL /\ IsCStrOf(Deref(RcvMsg.rcvFromIP), RcvArgs.pIP)
    /\ Len(RcvMsg.rawMsg) = RcvArgs.lenMsg
    /\ \A k \in 1..RcvArgs.lenMsg : RcvMsg.rawMsg[k] = RcvArgs.msg[k]
    /\ RcvMsg.pInputName = <<"imrelp">>
    /\ RcvMsg.flowCtlType = "eFLOWCTL_LIGHT_DELAY"
    /\ RcvMsg.msgFlags = {"PARSE_HOSTNAME", "NEEDS_PARSING"}
    /\ RcvMsg.pRuleset = confs[runModConf].pBindRuleset

\* C7: a callback in which every step succeeds submits one message that carries
\* the host name, the address, the first lenMsg bytes of the payload, the input
\* name imrelp, light-delay flow control, the two parse flags and the ruleset of
\* runModConf; and the callback changes nothing of the module's state.
C7_SubmitsRecordUnchanged ==
    [][(Received /\ RcvArgs.failed = NoFail)'
          => /\ C7_Message'
             /\ UNCHANGED <<phase, pRelpEngine, pInputName, cs, confs, loadModConf,
                            runModConf, disableDNS, sigUnblocked, sigHandler, fault>>]_vars

C7_Witness ==
    /\ Received
    /\ RcvArgs.failed = NoFail
    /\ rcv.fate = "submitted"
    /\ RcvMsg.pRuleset = <<"rsA">>
    /\ RcvMsg.rcvFrom = <<<<104, 49>>>>
    /\ RcvArgs.lenMsg = 1
    /\ Len(RcvArgs.msg) = 2

\* C8: for a bound ruleset name the configuration does not define, checkCnf logs
\* one warning, leaves the default ruleset (NULL) and reports no failure.
C8_UnknownRulesetFallsBack ==
    (/\ last = "checkCnf"
     /\ confs[pModConf].pszBindRuleset # NULL
     /\ Deref(confs[pModConf].pszBindRuleset) \notin Rulesets)
        => /\ Len(logs) = 1
           /\ confs[pModConf].pBindRuleset = NULL
           /\ ret = RS_RET_OK

\* the calls of the last handler to the function fn for instance i
CallsFor(fn, i) == SelectSeq(calls, LAMBDA c : c.fn = fn /\ c.inst = i)

TlsCalls ==
    {"relpSrvEnableTLS", "relpSrvEnableTLSZip", "relpSrvSetDHBits",
     "relpSrvSetGnuTLSPriString"}

\* C9: for an instance with TLS off, addListner makes none of the TLS calls,
\* whatever its compression, DH bits and priority string are, and that is no
\* error: with no failing call its server is finalized, with no TLS setting.
C9_TlsOffAppliesNothing ==
    Activated =>
        \A i \in 1..Len(ActiveRoot) :
            ActiveRoot[i].bEnableTLS = 0 =>
                /\ \A fn \in TlsCalls : CallsFor(fn, i) = <<>>
                /\ logs = <<>>
                /\ (\A k \in 1..Len(calls) : calls[k].ok) =>
                       /\ Len(CallsFor("relpEngineListnerConstructFinalize", i)) = 1
                       /\ Srvs[i] = [NewSrv EXCEPT !.lstnPort = ActiveRoot[i].pszBindPort]

C9_Witness ==
    /\ Activated
    /\ \E i \in 1..Len(ActiveRoot) :
           /\ ActiveRoot[i].bEnableTLS = 0
           /\ ActiveRoot[i].bEnableTLSZip = 1
           /\ ActiveRoot[i].dhBits = 2048
           /\ ActiveRoot[i].pristring = <<"NORMAL">>
           /\ Len(CallsFor("relpEngineListnerConstructFinalize", i)) = 1

\* how often a call is made that a condition guards
Times(cond) == IF cond THEN 1 ELSE 0

\* C10: for an instance with TLS on whose port was set, addListner sets the
\* priority string exactly once, with the configured string or NULL; it enables
\* compression only if bEnableTLSZip is set and sets the DH bits only if dhBits
\* is not zero.
C10_PriorityStringSetOnce ==
    Activated =>
        \A i \in 1..Len(ActiveRoot) :
            (/\ ActiveRoot[i].bEnableTLS # 0
             /\ \E k \in 1..Len(calls) :
                    calls[k].fn = "relpSrvSetLstnPort" /\ calls[k].inst = i /\ calls[k].ok)
                => /\ Len(CallsFor("relpSrvSetGnuTLSPriString", i)) = 1
                   /\ CallsFor("relpSrvSetGnuTLSPriString", i)[1].arg =
                          <<ActiveRoot[i].pristring>>
                   /\ Len(CallsFor("relpSrvEnableTLS", i)) = 1
                   /\ Len(CallsFor("relpSrvEnableTLSZip", i)) =
                          Times(ActiveRoot[i].bEnableTLSZip # 0)
                   /\ Len(CallsFor("relpSrvSetDHBits", i)) =
                          Times(ActiveRoot[i].dhBits # 0)

C10_Witness ==
    /\ Activated
    /\ \E i \in 1..Len(ActiveRoot) :
           /\ ActiveRoot[i].bEnableTLS = 1
           /\ ActiveRoot[i].pristring = NULL
           /\ ActiveRoot[i].bEnableTLSZip = 0
           /\ ActiveRoot[i].dhBits = 0
           /\ Len(CallsFor("relpSrvSetGnuTLSPriString", i)) = 1
           /\ CallsFor("relpSrvSetGnuTLSPriString", i)[1].arg = <<NULL>>

\* a call of the last handler made for instance i failed
FailedFor(i) == \E k \in 1..Len(calls) : calls[k].inst = i /\ ~calls[k].ok

\* the calls of the last activation that finalized a server, in order
Finalized == SelectSeq(CallsOf("relpEngineListnerConstructFinalize"), LAMBDA c : c.ok)

\* C11 (frame of a failing addListner): after an activation, an instance for which
\* a call failed was not finalized; the engine serves exactly the servers of the
\* instances finalized, in list order, each with its port; every instance of the
\* list was attempted.
C11_FailedListenerIsSkipped ==
    Activated =>
        /\ \A i \in 1..Len(ActiveRoot) :
               FailedFor(i) => \A k \in 1..Len(Finalized) : Finalized[k].inst # i
        /\ \A i \in 1..Len(ActiveRoot) : \E k \in 1..Len(calls) : calls[k].inst = i
        /\ Len(Srvs) = Len(Finalized)
        /\ \A k \in 1..Len(Srvs) :
               Srvs[k].lstnPort = ActiveRoot[Finalized[k].inst].pszBindPort

\* C11: the above, and an activation in which addListner failed for an instance
\* has logged that failure.
C11_FailedListenerIsSkippedAndLogged ==
    /\ C11_FailedListenerIsSkipped
    /\ (Activated /\ \E i \in 1..Len(ActiveRoot) : FailedFor(i)) => logs # <<>>

\* C13: doSIGTTIN makes one call, relpEngineSetStop, and neither prints nor logs;
\* it changes neither whether there is an engine, nor its servers, nor
\* runModConf, nor any module config.
C13_HandlerOnlyRequestsStop ==
    [][last' = "doSIGTTIN" =>
          /\ \A k \in 1..Len(calls') : calls'[k].fn = "relpEngineSetStop"
          /\ logs' = <<>>
          /\ (pRelpEngine' = NULL) = (pRelpEngine = NULL)
          /\ pRelpEngine # NULL => Deref(pRelpEngine').srvs = Deref(pRelpEngine).srvs
          /\ UNCHANGED <<runModConf, confs>>]_vars

\* C14: an activation that returns RS_RET_OK has finalized at least one server.
C14_OkNeedsAListener ==
    (Activated /\ ret = RS_RET_OK) => Len(Finalized) >= 1

\* the engine has had everything set that addListner sets on a new engine
FullyConfigured(e) ==
    /\ e.dbgprint
    /\ e.family
    /\ e.cmdSyslog
    /\ e.syslogRcv
    /\ ~disableDNS => e.dnsLookup

\* C15: an engine that serves a server is fully configured.
C15_ListenerImpliesConfiguredEngine ==
    Srvs # <<>> => FullyConfigured(Deref(pRelpEngine))

\* C19: a message onSyslogRcv constructed has, when the callback returns, been
\* submitted or destroyed; after a failure it has not been submitted and is not
\* left allocated.
C19_MessageSubmittedOrDestroyed ==
    (Received /\ rcv.msg # NULL) =>
        /\ rcv.fate \in {"submitted", "destroyed"}
        /\ ret # RS_RET_OK => rcv.fate = "destroyed"

\* the handlers that call createInstance
CreatesInstance(handler) == handler \in {"newInpInst", "addInstance"}

\* C20: a handler that calls createInstance and then sets only the port, when it
\* succeeds, leaves the list one longer, with the earlier instances in place and
\* unchanged and, at the tail, an instance with TLS off, compression off, dhBits 0
\* and no priority string; when it fails the list is unchanged; and no other
\* handler of the load changes the list.
C20_CreateInstanceAppendsDefault ==
    [][phase = "loading" /\ phase' = "loading" =>
          LET old == confs[loadModConf].root
              new == confs'[loadModConf].root
          IN  IF CreatesInstance(last') /\ ret' = RS_RET_OK
              THEN /\ Len(new) = Len(old) + 1
                   /\ SubSeq(new, 1, Len(old)) = old
                   /\ new[Len(new)].bEnableTLS = 0
                   /\ new[Len(new)].bEnableTLSZip = 0
                   /\ new[Len(new)].dhBits = 0
                   /\ new[Len(new)].pristring = NULL
              ELSE new = old]_vars

C20_Witness ==
    /\ phase = "loading"
    /\ CreatesInstance(last)
    /\ ret = RS_RET_OK
    /\ Len(confs[loadModConf].root) = 2
    /\ confs[loadModConf].root[1].pszBindPort # confs[loadModConf].root[2].pszBindPort

\* the legacy directive has stored a non-empty name
LegacyName == cs.pszBindRuleset # NULL /\ Deref(cs.pszBindRuleset) # ""

\* loadModConf is set exactly while a load is under way
OneLoadingInstance == (loadModConf # 0) = (phase = "loading")

\* the warning of endCnfLoad, and that it leaves no loading instance
EndCnfLoadWarnsAndClears ==
    /\ (confs[loadModConf].pszBindRuleset # NULL /\ LegacyName)
           => Len(logs') = 1 /\ ret' = RS_RET_OK
    /\ loadModConf' = 0

\* C18 as stated: endCnfLoad leaves as bound name the module parameter if set,
\* else the legacy name if non-empty, else none; with both, one warning is logged
\* and RS_RET_OK returned; loadModConf is cleared on every return and set only
\* during a load.
C18_BoundNameAsStated ==
    /\ []OneLoadingInstance
    /\ [][last' = "endCnfLoad" =>
             /\ confs'[loadModConf].pszBindRuleset =
                    IF confs[loadModConf].pszBindRuleset # NULL
                    THEN confs[loadModConf].pszBindRuleset
                    ELSE IF LegacyName THEN cs.pszBindRuleset ELSE NULL
             /\ EndCnfLoadWarnsAndClears]_vars

\* C18, amended: the legacy name is bound when duplicating it succeeds; when
\* ustrdup fails, endCnfLoad returns RS_RET_OUT_OF_MEMORY and no name is bound.
\* The rest is as stated.
C18_BoundNameUnlessOutOfMemory ==
    /\ []OneLoadingInstance
    /\ [][last' = "endCnfLoad" =>
             /\ confs'[loadModConf].pszBindRuleset =
                    IF confs[loadModConf].pszBindRuleset # NULL
                    THEN confs[loadModConf].pszBindRuleset
                    ELSE IF LegacyName /\ ret' = RS_RET_OK THEN cs.pszBindRuleset
                    ELSE NULL
             /\ ret' # RS_RET_OK =>
                    /\ ret' = RS_RET_OUT_OF_MEMORY
                    /\ confs[loadModConf].pszBindRuleset = NULL
                    /\ LegacyName
             /\ EndCnfLoadWarnsAndClears]_vars

C18_Witness ==
    /\ last = "endCnfLoad"
    /\ ret = RS_RET_OK
    /\ Len(logs) = 1
    /\ cs.pszBindRuleset = Ptr("rsA")
    /\ confs[pModConf].pszBindRuleset = Ptr("nope")
    /\ loadModConf = 0

\* C12: a step that starts with an engine makes no successful
\* relpEngineConstruct, keeps what the engine was given and the servers it has,
\* and ends without an engine only if it is modExit; a step that starts without
\* one constructs at most one.
C12_EngineIsSingleton ==
    [][LET built == SelectSeq(calls', LAMBDA c : c.fn = "relpEngineConstruct" /\ c.ok)
       IN  IF pRelpEngine # NULL
           THEN /\ built = <<>>
                /\ pRelpEngine' = NULL => last' = "modExit"
                /\ pRelpEngine' # NULL =>
                       /\ Len(Deref(pRelpEngine').srvs) >= Len(Deref(pRelpEngine).srvs)
                       /\ SubSeq(Deref(pRelpEngine').srvs, 1, Len(Deref(pRelpEngine).srvs))
                              = Deref(pRelpEngine).srvs
                       /\ Deref(pRelpEngine).syslogRcv => Deref(pRelpEngine').syslogRcv
                       /\ Deref(pRelpEngine).bStop => Deref(pRelpEngine').bStop
           ELSE /\ Len(built) <= 1
                /\ pRelpEngine' # NULL => Len(built) = 1]_vars

\* an engine built by the first module config serves the second, after
\* freeCnf and a stop request in between
C12_Witness ==
    /\ Activated
    /\ runModConf = 2
    /\ confs[1].freed
    /\ Len(confs[1].root) >= 1
    /\ Len(ActiveRoot) >= 1
    /\ CallsOf("relpEngineConstruct") = <<>>
    /\ Deref(pRelpEngine).bStop
    /\ Len(Srvs) = Len(confs[1].root) + Len(ActiveRoot)

\* C16: after the activation of a module config that follows a freed one, in
\* which every call succeeded, the engine serves exactly one server per instance
\* of the activated config.
C16_OnlyNewListenersServed ==
    (Activated /\ runModConf > 1 /\ confs[runModConf - 1].freed
       /\ \A k \in 1..Len(calls) : calls[k].ok)
        => /\ Len(Srvs) = Len(ActiveRoot)
           /\ \A i \in 1..Len(Srvs) : Srvs[i].lstnPort = ActiveRoot[i].pszBindPort

\* C17: onSyslogRcv runs only while runModConf is the module config activated
\* last, which is not freed, and a message it submits carries the ruleset
\* checkCnf resolved for that config.
C17_DispatchUsesActiveConfig ==
    /\ phase = "running" => runModConf = Len(confs) /\ ~confs[runModConf].freed
    /\ Received =>
           /\ runModConf = Len(confs)
           /\ ~confs[runModConf].freed
           /\ \A g \in 1..Len(confs) : g # runModConf => confs[g].freed
           /\ rcv.fate = "submitted" => RcvMsg.pRuleset = confs[runModConf].pBindRuleset

\* a message submitted under the second module config, whose ruleset differs
\* from that of the first
C17_Witness ==
    /\ Received
    /\ rcv.fate = "submitted"
    /\ runModConf = 2
    /\ confs[1].pBindRuleset # confs[2].pBindRuleset
    /\ RcvMsg.pRuleset = confs[2].pBindRuleset

====
